---------------------------- MODULE Spec2Model ----------------------------
(***************************************************************************)
(* Roger voicemail service (src/main.go): the webhook handler, the         *)
(* delivery decision in deliverVoicemail, the pending-voicemail queue and  *)
(* flushPendingQueue, as a state machine.                                  *)
(*                                                                         *)
(* Go pointers are options: Nil is the nil pointer, Some(x) a pointer to   *)
(* x.  Strings that the code takes apart (the recording URL) are sequences *)
(* of one-character strings; phone numbers are opaque strings.             *)
(* The Datastore and the Roger API are outside the repository: every call  *)
(* to them may succeed or fail, and a response carries any stream.         *)
(***************************************************************************)
EXTENDS Integers, Sequences, FiniteSets, TLC

\* ------------------------------------------------------------------ bounds
\* PendingVoicemail entities the store holds before the webhook stops serving.
MaxPending == 2

\* ----------------------------------------------------------------- options
Nil == << >>

Some(x) == << x >>

Deref(p) == p[1]

\* --------------------------------------------------------------- processes
Webhook == "w"

Flushers == {"f1", "f2"}

Procs == {Webhook} \cup Flushers

\* ------------------------------------------------------------ input domains
\* Form value "From" of a POST; "" when the provider sends none.
Froms == {"", "a"}

\* Form value "ForwardedFrom" of a POST; "" when the call was not forwarded.
Tos == {"", "b"}

\* Names of the Identity entities the lookups can ask for.
IdentityNames == {"unknownuser", "a", "b"}

\* The account key ID an Identity entity of that name points to, when set.
AccountIdOf == [n \in IdentityNames |->
                  IF n = "a" THEN 11 ELSE IF n = "b" THEN 12 ELSE 13]

\* An Identity entity: Account is a *datastore.Key (nil when the entity has
\* no account property), Available a bool.  Status is never read.
IdentityValues(n) == {[Account |-> k, Available |-> av] :
                        k \in {Nil, Some([ID |-> AccountIdOf[n]])},
                        av \in BOOLEAN}

\* What the Identity kind holds under one name: nothing, or an entity.  No
\* entity is ever stored under the placeholder name of line 141.
IdentitySlots(n) ==
  IF n = "unknownuser" THEN {Nil}
  ELSE {Nil} \cup {Some(i) : i \in IdentityValues(n)}

\* The entity of a phone number whose account is linked.
Linked(n) == Some([Account |-> Some([ID |-> AccountIdOf[n]]), Available |-> FALSE])

\* Form value "RecordingUrl", as characters.
RecordingUrls == { <<"r">> }

\* Streams the Roger API answers a successful POST with (id, others[].id).
ResponseStreams ==
  { [Id |-> 7, Others |-> << >>],
    [Id |-> 7, Others |-> <<[Id |-> 22], [Id |-> 21]>>],
    [Id |-> 0, Others |-> <<[Id |-> 21]>>] }

\* ------------------------------------------------------------ path.Ext etc.
DotWav == <<".", "w", "a", "v">>

DotMp3 == <<".", "m", "p", "3">>

RECURSIVE ExtFrom(_, _)
\* path.Ext: scan back from i to the last "/" for a "."; the suffix from it.
ExtFrom(p, i) ==
  IF i < 1 \/ p[i] = "/" THEN << >>
  ELSE IF p[i] = "." THEN SubSeq(p, i, Len(p))
  ELSE ExtFrom(p, i - 1)

Ext(p) == ExtFrom(p, Len(p))

\* callHandler lines 115-118: no extension or .wav becomes .mp3.
NormalizeAudioURL(u) ==
  LET ext == Ext(u)
  IN IF ext = << >> \/ ext = DotWav
       THEN SubSeq(u, 1, Len(u) - Len(ext)) \o DotMp3
       ELSE u

\* strconv.FormatInt(n, 10).
Digit(d) == <<"0", "1", "2", "3", "4", "5", "6", "7", "8", "9">>[d + 1]

RECURSIVE FormatNat(_)
FormatNat(n) == IF n < 10 THEN Digit(n) ELSE FormatNat(n \div 10) \o Digit(n % 10)

FormatInt(n) == IF n < 0 THEN "-" \o FormatNat(-n) ELSE FormatNat(n)

\* ------------------------------------------------------------------ errors
\* The error values deliverVoicemail and deliverPendingVoicemail return,
\* named after the message each carries; ErrNil is Go's nil error.
ErrNil == "nil"

ErrEmptyRecipient == "empty recipient"

ErrStillNoAccount == "retried delivery but still doesn't have an account"

ErrStoreFailed == "failed to store pending voicemail"

ErrStoredPending == "stored pending voicemail"

ErrPost == "post failed"

ErrPut == "put failed"

\* ------------------------------------------------------------------- state
VARIABLES
  identities,     \* Datastore kind Identity: name -> Nil or Some(entity)
  store,          \* Datastore kind PendingVoicemail: key ID k is position k
  pc,             \* where each unit of work stands
  args,           \* (from, to, audioURL, retrying) of the running deliverVoicemail
  loc,            \* its locals: from, toId, stream; and which of the two
                  \* store.Get of getIdentityPair the Datastore failed
  err,            \* its err; for a flush cycle between two t.Next, the err of
                  \* the deliverPendingVoicemail that returned last
  calls,          \* the postStream calls it has issued, in order
  ops,            \* the Datastore calls it has issued: gets, puts
  iter,           \* each flush cycle's iterator t
  cur,            \* the (key, voicemail) the flush cycle's t.Next returned last
  deliveredAtRun, \* history: the keys already delivered when the cycle's query ran
  form            \* r.Form of the request the webhook is serving: RecordingUrl

vars == <<identities, store, pc, args, loc, err, calls, ops, iter, cur,
          deliveredAtRun, form>>

NoArgs == [from |-> "", to |-> "", audioURL |-> << >>, retrying |-> FALSE]

NoLoc == [from |-> "", getFailed |-> <<FALSE, FALSE>>, toId |-> 0, stream |-> Nil]

NoOps == [gets |-> 0, puts |-> 0]

NoIter == [results |-> {}, failed |-> FALSE]

Init ==
  /\ identities = [n \in IdentityNames |-> Nil]
  /\ store = << >>
  /\ pc = [p \in Procs |-> "idle"]
  /\ args = [p \in Procs |-> NoArgs]
  /\ loc = [p \in Procs |-> NoLoc]
  /\ err = [p \in Procs |-> ErrNil]
  /\ calls = [p \in Procs |-> << >>]
  /\ ops = [p \in Procs |-> NoOps]
  /\ iter = [f \in Flushers |-> NoIter]
  /\ cur = [f \in Flushers |-> Nil]
  /\ deliveredAtRun = [f \in Flushers |-> {}]
  /\ form = << >>

\* ------------------------------------------------------- the outside world
\* The platform creates, updates or removes the Identity entity of a name.
PlatformSetIdentity(n, v) ==
  /\ identities[n] # v
  /\ identities' = [identities EXCEPT ![n] = v]
  /\ UNCHANGED <<store, pc, args, loc, err, calls, ops, iter, cur,
                 deliveredAtRun, form>>

\* --------------------------------------------------------- deliverVoicemail
\* (mutant) the recipient is never checked.
AnyRecipient(to) == TRUE

\* Line 137.
ValidRecipient(to) == to # ""

\* Lines 140-142.
NormalizeFrom(from) == IF from = "" THEN "unknownuser" ELSE from

\* getIdentityPair: store.Get, and nil on any error: the entity is not there,
\* or (failed) the Datastore did not answer.
GetIdentity(name, failed) ==
  IF failed \/ name \notin DOMAIN identities THEN Nil ELSE identities[name]

\* Line 144.
NeedsQueue(toIdentity) == toIdentity = Nil \/ Deref(toIdentity).Available

\* Line 164.
SenderLinked(fromIdentity) == fromIdentity # Nil /\ ~Deref(fromIdentity).Available

\* (mutant) a retry is queued like a first attempt.
RouteRequeue(fromIdentity, toIdentity, retrying) ==
  IF NeedsQueue(toIdentity) THEN "enqueue"
  ELSE IF Deref(toIdentity).Account = Nil THEN "panic"
  ELSE IF SenderLinked(fromIdentity)
    THEN IF Deref(fromIdentity).Account = Nil THEN "panic" ELSE "direct"
  ELSE "reverse"

\* Lines 144-172: the branch deliverVoicemail takes after the lookups.  A nil
\* Account dereferenced at line 162 or 165 panics.
Route(fromIdentity, toIdentity, retrying) ==
  IF NeedsQueue(toIdentity)
    THEN IF retrying THEN "still_no_account" ELSE "enqueue"
  ELSE IF Deref(toIdentity).Account = Nil THEN "panic"
  ELSE IF SenderLinked(fromIdentity)
    THEN IF Deref(fromIdentity).Account = Nil THEN "panic" ELSE "direct"
  ELSE "reverse"

\* (mutant) the sender and the recipient are stored swapped.
NewPendingSwapped(from, to, audioURL) ==
  [From |-> to, To |-> from, AudioURL |-> audioURL, Delivered |-> FALSE]

\* Lines 149-153.
NewPending(from, to, audioURL) ==
  [From |-> from, To |-> to, AudioURL |-> audioURL, Delivered |-> FALSE]

\* (mutant) a failed store.Put is reported like a successful one.
EnqueueErrStored(ok) == ErrStoredPending

\* Lines 155-159: the error deliverVoicemail returns after the store.Put.
EnqueueErr(ok) == IF ok THEN ErrStoredPending ELSE ErrStoreFailed

\* (mutant) the new entity takes the first key, replacing what is there.
PutNewAtFirstKey(s, vm) == IF s = << >> THEN <<vm>> ELSE [s EXCEPT ![1] = vm]

\* store.Put with an incomplete key: a new entity under a fresh ID.
PutNew(s, vm) == Append(s, vm)

\* (mutant) the Put also drops the entities stored after that key.
PutAtLosingLater(s, key, vm) == [k \in 1..key |-> IF k = key THEN vm ELSE s[k]]

\* store.Put with a complete key: the entity under that key is replaced.
PutAt(s, key, vm) == [s EXCEPT ![key] = vm]

\* postStream lines 232-237: the path a stream id selects.
StreamPath(streamId) ==
  IF streamId > 0 THEN <<"streams", FormatInt(streamId), "chunks">>
  ELSE <<"streams">>

\* postStream: the request it sends and whether it returned a nil error.
PostCall(accountId, streamId, fields, ok) ==
  [accountId |-> accountId, streamId |-> streamId, fields |-> fields,
   path |-> StreamPath(streamId), on_behalf_of |-> FormatInt(accountId),
   ok |-> ok]

\* Lines 166-169.
DirectFields(toId, audioURL) ==
  [participant |-> FormatInt(toId), audio_url |-> audioURL]

\* Lines 174-177.
ReverseFields(from) == [participant |-> from, reason |-> "voicemail"]

\* Lines 187-189.
AudioFields(audioURL) == [audio_url |-> audioURL]

\* Lines 181-186.
AudioFromId(stream, toId) ==
  IF Len(stream.Others) > 0 THEN stream.Others[1].Id ELSE toId

\* What postStream returns: an error, or a nil error and the parsed stream.
PostResults == {[ok |-> FALSE, stream |-> Nil]}
               \cup {[ok |-> TRUE, stream |-> Some(s)] : s \in ResponseStreams}

\* (mutant) the audio follow-up is posted whatever the creation call returned.
AfterReverseCreationAlways(ok) == "audio"

\* Lines 178-180: a failed reverse-creation call returns its error; a
\* successful one goes on to the audio follow-up.
AfterReverseCreation(ok) == IF ok THEN "audio" ELSE "returned"

\* deliverVoicemail from its entry to the return, the panic, or the return of
\* the reverse-creation call (lines 137-180).  getFails: whether a store.Get
\* can fail; posts: what postStream can return.
DeliverStart(p, getFails, posts) ==
  /\ pc[p] = "deliver"
  /\ LET a == args[p] IN
     IF ~ValidRecipient(a.to)
       THEN /\ err' = [err EXCEPT ![p] = ErrEmptyRecipient]
            /\ pc' = [pc EXCEPT ![p] = "returned"]
            /\ UNCHANGED <<store, loc, calls, ops>>
       ELSE
         \E failA \in getFails, failB \in getFails :
           LET from == NormalizeFrom(a.from)
               fromIdentity == GetIdentity(from, failA)
               toIdentity == GetIdentity(a.to, failB)
               route == Route(fromIdentity, toIdentity, a.retrying)
               l == [NoLoc EXCEPT !.from = from, !.getFailed = <<failA, failB>>]
               toId == Deref(Deref(toIdentity).Account).ID
               fromId == Deref(Deref(fromIdentity).Account).ID
               o == [NoOps EXCEPT !.gets = 2]
           IN
           \/ /\ route = "still_no_account"
              /\ err' = [err EXCEPT ![p] = ErrStillNoAccount]
              /\ pc' = [pc EXCEPT ![p] = "returned"]
              /\ loc' = [loc EXCEPT ![p] = l]
              /\ ops' = [ops EXCEPT ![p] = o]
              /\ UNCHANGED <<store, calls>>
           \/ /\ route = "enqueue"
              /\ \E ok \in BOOLEAN :
                   /\ store' = IF ok THEN PutNew(store, NewPending(from, a.to, a.audioURL))
                                     ELSE store
                   /\ err' = [err EXCEPT ![p] = EnqueueErr(ok)]
              /\ ops' = [ops EXCEPT ![p] = [o EXCEPT !.puts = 1]]
              /\ pc' = [pc EXCEPT ![p] = "returned"]
              /\ loc' = [loc EXCEPT ![p] = l]
              /\ UNCHANGED calls
           \/ /\ route = "panic"
              /\ pc' = [pc EXCEPT ![p] = "panicked"]
              /\ loc' = [loc EXCEPT ![p] = l]
              /\ ops' = [ops EXCEPT ![p] = o]
              /\ UNCHANGED <<store, err, calls>>
           \/ /\ route = "direct"
              /\ \E r \in posts :
                   /\ calls' = [calls EXCEPT ![p] = Append(@,
                        PostCall(fromId, 0, DirectFields(toId, a.audioURL), r.ok))]
                   /\ err' = [err EXCEPT ![p] = IF r.ok THEN ErrNil ELSE ErrPost]
              /\ pc' = [pc EXCEPT ![p] = "returned"]
              /\ loc' = [loc EXCEPT ![p] = [l EXCEPT !.toId = toId]]
              /\ ops' = [ops EXCEPT ![p] = o]
              /\ UNCHANGED store
           \/ /\ route = "reverse"
              /\ \E r \in posts :
                   /\ calls' = [calls EXCEPT ![p] = Append(@,
                        PostCall(toId, 0, ReverseFields(from), r.ok))]
                   /\ err' = [err EXCEPT ![p] = IF r.ok THEN ErrNil ELSE ErrPost]
                   /\ pc' = [pc EXCEPT ![p] = AfterReverseCreation(r.ok)]
                   /\ loc' = [loc EXCEPT ![p] =
                                [l EXCEPT !.toId = toId, !.stream = r.stream]]
              /\ ops' = [ops EXCEPT ![p] = o]
              /\ UNCHANGED store
  /\ UNCHANGED <<identities, args, iter, cur, deliveredAtRun, form>>

\* deliverVoicemail lines 181-190: the audio follow-up of the reverse path.
DeliverAudio(p, posts) ==
  /\ pc[p] = "audio"
  /\ LET stream == Deref(loc[p].stream)
         fromId == AudioFromId(stream, loc[p].toId)
     IN \E r \in posts :
          /\ calls' = [calls EXCEPT ![p] = Append(@,
               PostCall(fromId, stream.Id, AudioFields(args[p].audioURL), r.ok))]
          /\ err' = [err EXCEPT ![p] = IF r.ok THEN ErrNil ELSE ErrPost]
  /\ pc' = [pc EXCEPT ![p] = "returned"]
  /\ loc' = [loc EXCEPT ![p] = [@ EXCEPT !.stream = Nil]]
  /\ UNCHANGED <<identities, store, args, ops, iter, cur, deliveredAtRun, form>>

\* -------------------------------------------------------------- callHandler
\* What a unit of work leaves behind when it ends: nothing.
Forget(p) ==
  /\ args' = [args EXCEPT ![p] = NoArgs]
  /\ loc' = [loc EXCEPT ![p] = NoLoc]
  /\ err' = [err EXCEPT ![p] = ErrNil]
  /\ calls' = [calls EXCEPT ![p] = << >>]
  /\ ops' = [ops EXCEPT ![p] = NoOps]

\* Lines 103-107: a GET carries no recording; the TwiML document is written.
CallHandlerGet ==
  /\ pc[Webhook] \in {"idle", "panicked"}
  /\ pc' = [pc EXCEPT ![Webhook] = "idle"]
  /\ Forget(Webhook)
  /\ form' = << >>
  /\ UNCHANGED <<identities, store, iter, cur, deliveredAtRun>>

\* Lines 108-120: a POST whose form parses; deliverVoicemail is entered with
\* the normalized recording URL and retrying = false.
CallHandlerPost(from, to, recordingUrl) ==
  /\ pc[Webhook] \in {"idle", "panicked"}
  /\ Len(store) < MaxPending
  /\ form' = recordingUrl
  /\ args' = [args EXCEPT ![Webhook] =
                [from |-> from, to |-> to,
                 audioURL |-> NormalizeAudioURL(recordingUrl), retrying |-> FALSE]]
  /\ pc' = [pc EXCEPT ![Webhook] = "deliver"]
  /\ loc' = [loc EXCEPT ![Webhook] = NoLoc]
  /\ err' = [err EXCEPT ![Webhook] = ErrNil]
  /\ calls' = [calls EXCEPT ![Webhook] = << >>]
  /\ ops' = [ops EXCEPT ![Webhook] = NoOps]
  /\ UNCHANGED <<identities, store, iter, cur, deliveredAtRun>>

\* Lines 120-124: deliverVoicemail has returned; its error is logged.
CallHandlerReturn ==
  /\ pc[Webhook] = "returned"
  /\ pc' = [pc EXCEPT ![Webhook] = "idle"]
  /\ Forget(Webhook)
  /\ form' = << >>
  /\ UNCHANGED <<identities, store, iter, cur, deliveredAtRun>>

\* --------------------------------------------------------- flushPendingQueue
\* (mutant) the query has no filter.
QueryAll(s) == {[key |-> k, vm |-> s[k]] : k \in DOMAIN s}

\* Line 194: the entities the query Filter("delivered =", false) selects.
QueryUndelivered(s) ==
  {[key |-> k, vm |-> s[k]] : k \in {i \in DOMAIN s : s[i].Delivered = FALSE}}

\* (mutant) every pending voicemail is marked, not the delivered one alone.
MarkDeliveredAll(s, key, vm) == [k \in DOMAIN s |-> [s[k] EXCEPT !.Delivered = TRUE]]

\* (mutant) the flag is flipped, not set.
MarkDeliveredFlip(s, key, vm) ==
  PutAt(s, key, [vm EXCEPT !.Delivered = ~s[key].Delivered])

\* Lines 131-132: the entity deliverPendingVoicemail puts back under its key.
MarkDelivered(s, key, vm) == PutAt(s, key, [vm EXCEPT !.Delivered = TRUE])

\* Lines 201-203: where the loop goes once t.Next returned an error that is
\* not iterator.Done (logged, continue).
AfterIteratorError == "next"

\* Lines 198-205 and 127: one t.Next on the iterator in state it, and what the
\* loop does with its answer (atRun: the keys delivered when the query ran).
\* The Datastore can fail the iterator on a t.Next (nextFails: whether it
\* can); the iterator then holds the error and returns it on every later
\* t.Next.
LoopOnNext(f, it, atRun, nextFails) ==
  /\ \/ \* t.Next returns an error: logged, continue
        /\ \E failed \in (IF it.failed THEN {TRUE} ELSE nextFails) :
             /\ failed
             /\ iter' = [iter EXCEPT ![f] = [it EXCEPT !.failed = TRUE]]
        /\ pc' = [pc EXCEPT ![f] = AfterIteratorError]
        /\ cur' = [cur EXCEPT ![f] = Nil]
        /\ args' = [args EXCEPT ![f] = NoArgs]
        /\ deliveredAtRun' = [deliveredAtRun EXCEPT ![f] = atRun]
     \/ \* iterator.Done: break
        /\ ~it.failed
        /\ it.results = {}
        /\ iter' = [iter EXCEPT ![f] = NoIter]
        /\ cur' = [cur EXCEPT ![f] = Nil]
        /\ deliveredAtRun' = [deliveredAtRun EXCEPT ![f] = {}]
        /\ pc' = [pc EXCEPT ![f] = "idle"]
        /\ args' = [args EXCEPT ![f] = NoArgs]
     \/ \* t.Next returns an entity: deliverPendingVoicemail(key, voicemail)
        /\ ~it.failed
        /\ deliveredAtRun' = [deliveredAtRun EXCEPT ![f] = atRun]
        /\ \E e \in it.results :
             /\ iter' = [iter EXCEPT ![f] = [it EXCEPT !.results = @ \ {e}]]
             /\ cur' = [cur EXCEPT ![f] = Some(e)]
             /\ args' = [args EXCEPT ![f] =
                  [from |-> e.vm.From, to |-> e.vm.To,
                   audioURL |-> e.vm.AudioURL, retrying |-> TRUE]]
             /\ pc' = [pc EXCEPT ![f] = "deliver"]
  /\ loc' = [loc EXCEPT ![f] = NoLoc]
  /\ err' = [err EXCEPT ![f] = ErrNil]
  /\ calls' = [calls EXCEPT ![f] = << >>]
  /\ ops' = [ops EXCEPT ![f] = NoOps]

\* Lines 194-198, first iteration: the query is built and run, and t.Next is
\* called on its results.
FlushRun(f, nextFails) ==
  /\ pc[f] \in {"idle", "panicked"}
  /\ LoopOnNext(f, [results |-> QueryUndelivered(store), failed |-> FALSE],
                 {k \in DOMAIN store : store[k].Delivered}, nextFails)
  /\ UNCHANGED <<identities, store, form>>

\* Lines 196-205, later iterations.
FlushNext(f, nextFails) ==
  /\ pc[f] = "next"
  /\ LoopOnNext(f, iter[f], deliveredAtRun[f], nextFails)
  /\ UNCHANGED <<identities, store, form>>

\* (mutant) the voicemail is marked whatever deliverVoicemail returned.
RetryFailedNever(e) == FALSE

\* Lines 128-130: deliverPendingVoicemail returns the error of
\* deliverVoicemail without touching the store.
RetryFailed(e) == e # ErrNil

\* deliverPendingVoicemail lines 128-133 and flushPendingQueue lines 205-209:
\* deliverVoicemail has returned; on a nil error the voicemail is put back
\* with Delivered = true; the result is logged and the loop goes on.
\* putOks: what that store.Put can answer.
FlushDelivered(f, putOks) ==
  /\ pc[f] = "returned"
  /\ IF RetryFailed(err[f])
       THEN UNCHANGED <<store, err>>
       ELSE \E ok \in putOks :
              LET e == Deref(cur[f]) IN
              /\ store' = IF ok THEN MarkDelivered(store, e.key, e.vm) ELSE store
              /\ err' = [err EXCEPT ![f] = IF ok THEN ErrNil ELSE ErrPut]
  /\ pc' = [pc EXCEPT ![f] = "next"]
  /\ args' = [args EXCEPT ![f] = NoArgs]
  /\ loc' = [loc EXCEPT ![f] = NoLoc]
  /\ calls' = [calls EXCEPT ![f] = << >>]
  /\ ops' = [ops EXCEPT ![f] = NoOps]
  /\ UNCHANGED <<identities, iter, cur, deliveredAtRun, form>>

\* --------------------------------------------------------------------- Next
\* No unit of work is running.
Quiet == \A p \in Procs : pc[p] \in {"idle", "panicked"}

\* Requests and flush cycles one after the other, under every Identity the
\* platform can store.
Next ==
  \/ \E n \in IdentityNames : \E v \in IdentitySlots(n) : PlatformSetIdentity(n, v)
  \/ CallHandlerGet
  \/ Quiet /\ \E from \in Froms, to \in Tos, u \in RecordingUrls :
                 CallHandlerPost(from, to, u)
  \/ CallHandlerReturn
  \/ \E p \in {Webhook, "f1"} : DeliverStart(p, BOOLEAN, PostResults)
  \/ \E p \in {Webhook, "f1"} : DeliverAudio(p, PostResults)
  \/ Quiet /\ FlushRun("f1", BOOLEAN)
  \/ FlushNext("f1", BOOLEAN)
  \/ FlushDelivered("f1", BOOLEAN)

Spec == Init /\ [][Next]_vars

\* Requests and two flush cycles running concurrently; every caller has a
\* number, the platform links the account of the recipient's phone number, or
\* unlinks it; every store.Get is answered and a successful post is answered
\* with one stream.
PostResultsOverlap ==
  { [ok |-> FALSE, stream |-> Nil],
    [ok |-> TRUE, stream |-> Some([Id |-> 7, Others |-> <<[Id |-> 22], [Id |-> 21]>>])] }

NextOverlap ==
  \/ \E v \in {Nil, Linked("b")} : PlatformSetIdentity("b", v)
  \/ CallHandlerGet
  \/ \E from \in Froms \ {""}, to \in Tos, u \in RecordingUrls :
       CallHandlerPost(from, to, u)
  \/ CallHandlerReturn
  \/ \E p \in Procs : DeliverStart(p, {FALSE}, PostResultsOverlap)
  \/ \E p \in Procs : DeliverAudio(p, PostResultsOverlap)
  \/ \E f \in Flushers : FlushRun(f, BOOLEAN)
  \/ \E f \in Flushers : FlushNext(f, BOOLEAN)
  \/ \E f \in Flushers : FlushDelivered(f, BOOLEAN)

SpecOverlap == Init /\ [][NextOverlap]_vars

\* Requests one at a time while the queue is empty, each with any of the
\* recording URLs below, and one flush cycle; the caller has a number and no
\* account, the platform links the recipient's number or unlinks it.
UrlChars == {"r", ".", "/"}

\* Form values "RecordingUrl": a stem of up to two characters, then nothing,
\* ".wav" or ".mp3", then nothing or a query string.
FormUrls ==
  LET stems == {<< >>} \cup {<<c>> : c \in UrlChars}
                 \cup {<<c, d>> : c \in UrlChars, d \in UrlChars}
  IN {s \o x \o q : s \in stems, x \in {<< >>, DotWav, DotMp3},
                    q \in {<< >>, <<"?", "v">>}}

NextUrl ==
  \/ \E v \in {Nil, Linked("b")} : PlatformSetIdentity("b", v)
  \/ store = << >> /\ \E u \in FormUrls : CallHandlerPost("a", "b", u)
  \/ CallHandlerReturn
  \/ \E p \in {Webhook, "f1"} : DeliverStart(p, {FALSE}, PostResultsOverlap)
  \/ \E p \in {Webhook, "f1"} : DeliverAudio(p, PostResultsOverlap)
  \/ FlushRun("f1", BOOLEAN)
  \/ FlushNext("f1", BOOLEAN)
  \/ FlushDelivered("f1", BOOLEAN)

SpecUrl == Init /\ [][NextUrl]_vars

\* Requests and flush cycles one after the other, the platform linking and
\* unlinking both numbers, every store.Get answered, the Roger API answering
\* a successful post with a stream of any id: negative, zero or positive.
StreamIds == {-1, 0, 7}

StreamResults ==
  {[ok |-> FALSE, stream |-> Nil]}
  \cup {[ok |-> TRUE, stream |-> Some([Id |-> i, Others |-> o])] :
          i \in StreamIds, o \in {<< >>, <<[Id |-> 21]>>}}

NextStream ==
  \/ \E n \in {"a", "b"} : \E v \in {Nil, Linked(n)} : PlatformSetIdentity(n, v)
  \/ Quiet /\ \E u \in RecordingUrls : CallHandlerPost("a", "b", u)
  \/ CallHandlerReturn
  \/ \E p \in {Webhook, "f1"} : DeliverStart(p, {FALSE}, StreamResults)
  \/ \E p \in {Webhook, "f1"} : DeliverAudio(p, StreamResults)
  \/ Quiet /\ FlushRun("f1", BOOLEAN)
  \/ FlushNext("f1", BOOLEAN)
  \/ FlushDelivered("f1", BOOLEAN)

SpecStream == Init /\ [][NextStream]_vars

\* A flush cycle: the steps of flushPendingQueue, with every query and
\* lookup of the cycle answered, every post answered by posts and the Put of
\* a delivered voicemail by putOks.
FlushCycle(f, posts, putOks) ==
  \/ FlushRun(f, {FALSE})
  \/ FlushNext(f, {FALSE})
  \/ DeliverStart(f, {FALSE}, posts)
  \/ DeliverAudio(f, posts)
  \/ FlushDelivered(f, putOks)

\* The platform answers every post of a flush cycle with a stream.
PostOk ==
  {[ok |-> TRUE, stream |-> Some([Id |-> 7, Others |-> <<[Id |-> 22], [Id |-> 21]>>])]}

\* The Identity entities of a registered number: available = false, with or
\* without an account property.
Registered(n) == {Some(i) : i \in {v \in IdentityValues(n) : ~v.Available}}

\* Requests for a recipient who registers at some point and stays registered,
\* and flush cycles that keep being run, one after the other, their store and
\* platform calls succeeding.
NextLive ==
  \/ identities["b"] = Nil /\ \E v \in Registered("b") : PlatformSetIdentity("b", v)
  \/ \E u \in RecordingUrls : CallHandlerPost("a", "b", u)
  \/ CallHandlerReturn
  \/ DeliverStart(Webhook, {FALSE}, PostResultsOverlap)
  \/ DeliverAudio(Webhook, PostResultsOverlap)
  \/ FlushCycle("f1", PostOk, {TRUE})

SpecLive == Init /\ [][NextLive]_vars /\ WF_vars(FlushCycle("f1", PostOk, {TRUE}))

\* Requests, and flush cycles that keep being run one after the other, never
\* two at a time; the platform links the recipient's number or unlinks it, a
\* post may fail, and so may the Put of a delivered voicemail.
NextRedrive ==
  \/ \E v \in {Nil, Linked("b")} : PlatformSetIdentity("b", v)
  \/ \E u \in RecordingUrls : CallHandlerPost("a", "b", u)
  \/ CallHandlerReturn
  \/ DeliverStart(Webhook, {FALSE}, PostResultsOverlap)
  \/ DeliverAudio(Webhook, PostResultsOverlap)
  \/ FlushCycle("f1", PostResultsOverlap, BOOLEAN)

SpecRedrive ==
  Init /\ [][NextRedrive]_vars
       /\ WF_vars(FlushCycle("f1", PostResultsOverlap, BOOLEAN))

\* ------------------------------------------------------------------ claims
\* The outcome an error value of deliverVoicemail stands for: nil is
\* Delivered, the error of line 158 is QueuedPending, any other is Failed.
Outcome(e) ==
  IF e = ErrNil THEN "Delivered"
  ELSE IF e = ErrStoredPending THEN "QueuedPending"
  ELSE "Failed"

\* A step in which p runs deliverVoicemail from its entry (DeliverStart).
Starts(p) == pc[p] = "deliver" /\ pc'[p] # "deliver"

\* The Identity entity stored under a name; none under a name never stored.
IdentityOf(n) == IF n \in DOMAIN identities THEN identities[n] ELSE Nil

\* What the lookups of that step returned for the sender and the recipient.
FromSeen(p) ==
  IF loc'[p].getFailed[1] THEN Nil
  ELSE IdentityOf(IF args[p].from = "" THEN "unknownuser" ELSE args[p].from)

ToSeen(p) == IF loc'[p].getFailed[2] THEN Nil ELSE IdentityOf(args[p].to)

Absent(i) == i = Nil

Usable(i) == i # Nil /\ ~i[1].Available

Unusable(i) == i = Nil \/ i[1].Available

\* C1 as stated: a first attempt (isRetry = false) whose recipient identity is
\* absent or available, with the store accepting the write, inserts exactly
\* one record carrying the call's from, to and audioURL with delivered =
\* false, posts nothing and ends QueuedPending.
C1_EnqueueCarriesCallFrom ==
  [][\A p \in Procs :
       (Starts(p) /\ ~args[p].retrying /\ Unusable(ToSeen(p))
          /\ err'[p] # ErrStoreFailed)
       => /\ store' = Append(store, [From |-> args[p].from, To |-> args[p].to,
                                     AudioURL |-> args[p].audioURL,
                                     Delivered |-> FALSE])
          /\ calls'[p] = << >>
          /\ pc'[p] = "returned"
          /\ Outcome(err'[p]) = "QueuedPending"]_vars

\* C1 amended: the same for a non-empty to, the record carrying the call's
\* from, or the placeholder "unknownuser" when the call's from is empty.
C1_EnqueueCarriesNormalizedFrom ==
  [][\A p \in Procs :
       (Starts(p) /\ ~args[p].retrying /\ args[p].to # ""
          /\ Unusable(ToSeen(p)) /\ err'[p] # ErrStoreFailed)
       => /\ store' = Append(store,
                        [From |-> IF args[p].from = "" THEN "unknownuser"
                                  ELSE args[p].from,
                         To |-> args[p].to,
                         AudioURL |-> args[p].audioURL,
                         Delivered |-> FALSE])
          /\ calls'[p] = << >>
          /\ ops'[p].puts = 1
          /\ pc'[p] = "returned"
          /\ Outcome(err'[p]) = "QueuedPending"
          /\ Outcome(err'[p]) \notin {"Failed", "Delivered"}]_vars

\* C1 witness: a first attempt from an anonymous caller has been queued.
C1_Witness ==
  /\ pc[Webhook] = "returned"
  /\ err[Webhook] = ErrStoredPending
  /\ args[Webhook].from = ""
  /\ ~args[Webhook].retrying
  /\ Len(store) > 0
  /\ store[Len(store)].From = "unknownuser"

\* C2: a retry (isRetry = true) whose recipient identity is absent or
\* available ends Failed with the persistent-non-delivery error, leaves the
\* PendingVoicemail records as they were, writes nothing and posts nothing.
C2_RetryNeverRequeues ==
  [][\A p \in Procs :
       (Starts(p) /\ args[p].retrying /\ Unusable(ToSeen(p)))
       => /\ err'[p] = ErrStillNoAccount
          /\ Outcome(err'[p]) = "Failed"
          /\ store' = store
          /\ ops'[p].puts = 0
          /\ calls'[p] = << >>
          /\ pc'[p] = "returned"]_vars

\* C2 witness: a flush cycle's retry has come back with that error.
C2_Witness ==
  \E f \in Flushers :
    /\ pc[f] = "returned"
    /\ args[f].retrying
    /\ err[f] = ErrStillNoAccount
    /\ Unusable(IdentityOf(args[f].to))

\* C3: deliver with an empty to ends with the invalid-request error without
\* an identity lookup, a store write or a post; store and platform unchanged.
C3_EmptyRecipientRejected ==
  [][\A p \in Procs :
       (Starts(p) /\ args[p].to = "")
       => /\ err'[p] = ErrEmptyRecipient
          /\ pc'[p] = "returned"
          /\ ops'[p].gets = 0
          /\ ops'[p].puts = 0
          /\ calls'[p] = << >>
          /\ store' = store
          /\ identities' = identities]_vars

\* C3 witness: a call without a recipient has been rejected.
C3_Witness ==
  /\ pc[Webhook] = "returned"
  /\ args[Webhook].to = ""
  /\ err[Webhook] = ErrEmptyRecipient

\* C4 as stated: every attempt ends with one of the three outcomes and never
\* without one; a retry never ends QueuedPending.
C4_EveryAttemptResolves ==
  \A p \in Procs :
    /\ pc[p] # "panicked"
    /\ pc[p] = "returned"
         => /\ Outcome(err[p]) \in {"Delivered", "QueuedPending", "Failed"}
            /\ args[p].retrying => Outcome(err[p]) # "QueuedPending"

\* The decimal text of the account ids of the model, written out.
DecimalOf(id) == IF id = 11 THEN "11" ELSE IF id = 12 THEN "12"
                 ELSE IF id = 13 THEN "13" ELSE IF id = 21 THEN "21"
                 ELSE IF id = 22 THEN "22" ELSE "?"

\* The account id an identity points to; -1 when its Account is nil.
AccountId(i) == IF i[1].Account = Nil THEN -1 ELSE i[1].Account[1].ID

\* C5 as stated: recipient and sender both present with available = false:
\* exactly one post, on behalf of the sender's account, with conversation id
\* 0, participant = the recipient's account id and audio_url = audioURL; no
\* reverse-creation call, no store write; Delivered iff that post succeeds.
C5_DirectPost ==
  [][\A p \in Procs :
       (Starts(p) /\ args[p].to # "" /\ Usable(ToSeen(p)) /\ Usable(FromSeen(p)))
       => /\ pc'[p] = "returned"
          /\ Len(calls'[p]) = 1
          /\ calls'[p][1].accountId = AccountId(FromSeen(p))
          /\ calls'[p][1].streamId = 0
          /\ DOMAIN calls'[p][1].fields = {"participant", "audio_url"}
          /\ calls'[p][1].fields.participant = DecimalOf(AccountId(ToSeen(p)))
          /\ calls'[p][1].fields.audio_url = args[p].audioURL
          /\ store' = store
          /\ ops'[p].puts = 0
          /\ (Outcome(err'[p]) = "Delivered") <=> calls'[p][1].ok]_vars

\* C5 where both identities carry an Account key: the statement holds.
C5_DirectPostAccountsSet ==
  [][\A p \in Procs :
       (Starts(p) /\ args[p].to # "" /\ Usable(ToSeen(p)) /\ Usable(FromSeen(p))
          /\ AccountId(ToSeen(p)) # -1 /\ AccountId(FromSeen(p)) # -1)
       => /\ pc'[p] = "returned"
          /\ Len(calls'[p]) = 1
          /\ calls'[p][1].accountId = AccountId(FromSeen(p))
          /\ calls'[p][1].streamId = 0
          /\ DOMAIN calls'[p][1].fields = {"participant", "audio_url"}
          /\ calls'[p][1].fields.participant = DecimalOf(AccountId(ToSeen(p)))
          /\ calls'[p][1].fields.audio_url = args[p].audioURL
          /\ store' = store
          /\ ops'[p].puts = 0
          /\ (Outcome(err'[p]) = "Delivered") <=> calls'[p][1].ok]_vars

\* A direct post has been issued and has succeeded.
C5_Witness ==
  /\ pc[Webhook] = "returned"
  /\ Len(calls[Webhook]) = 1
  /\ "audio_url" \in DOMAIN calls[Webhook][1].fields
  /\ calls[Webhook][1].accountId = 11
  /\ calls[Webhook][1].fields.participant = "12"
  /\ err[Webhook] = ErrNil

\* The acting account the audio follow-up must use after a creation call c
\* that returned stream s.
ExpectedAudioActor(c, s) ==
  IF s.Others # << >> THEN s.Others[1].Id ELSE c.accountId

\* C6 as stated: recipient usable, sender not: first a reverse-creation call
\* (on behalf of the recipient's account, conversation id 0, participant =
\* from, reason = "voicemail"); then, if it succeeded, exactly one audio post
\* carrying only audio_url to the returned stream id, on behalf of the first
\* of the returned others, or of the recipient's account when there is none.
C6_ReverseThenAudio ==
  [][\A p \in Procs :
       /\ (Starts(p) /\ args[p].to # "" /\ Usable(ToSeen(p)) /\ Unusable(FromSeen(p)))
          => /\ Len(calls'[p]) = 1
             /\ calls'[p][1].accountId = AccountId(ToSeen(p))
             /\ calls'[p][1].streamId = 0
             /\ calls'[p][1].fields = [participant |-> args[p].from,
                                       reason |-> "voicemail"]
             /\ pc'[p] = IF calls'[p][1].ok THEN "audio" ELSE "returned"
       /\ (pc[p] = "audio" /\ pc'[p] # "audio")
          => /\ pc'[p] = "returned"
             /\ Len(calls[p]) = 1 /\ Len(calls'[p]) = 2
             /\ calls'[p][1] = calls[p][1]
             /\ calls'[p][2].streamId = loc[p].stream[1].Id
             /\ calls'[p][2].fields = [audio_url |-> args[p].audioURL]
             /\ calls'[p][2].accountId =
                  ExpectedAudioActor(calls[p][1], loc[p].stream[1])]_vars

\* C6 where the recipient's identity carries an Account key and the
\* participant is the sender's number or, for an empty from, "unknownuser":
\* the statement holds.
C6_ReverseThenAudioAccountSet ==
  [][\A p \in Procs :
       /\ (Starts(p) /\ args[p].to # "" /\ Usable(ToSeen(p)) /\ Unusable(FromSeen(p))
             /\ AccountId(ToSeen(p)) # -1)
          => /\ Len(calls'[p]) = 1
             /\ calls'[p][1].accountId = AccountId(ToSeen(p))
             /\ calls'[p][1].streamId = 0
             /\ calls'[p][1].fields =
                  [participant |-> IF args[p].from = "" THEN "unknownuser"
                                   ELSE args[p].from,
                   reason |-> "voicemail"]
             /\ pc'[p] = IF calls'[p][1].ok THEN "audio" ELSE "returned"
       /\ (pc[p] = "audio" /\ pc'[p] # "audio")
          => /\ pc'[p] = "returned"
             /\ Len(calls[p]) = 1 /\ Len(calls'[p]) = 2
             /\ calls'[p][1] = calls[p][1]
             /\ calls'[p][2].streamId = loc[p].stream[1].Id
             /\ calls'[p][2].fields = [audio_url |-> args[p].audioURL]
             /\ calls'[p][2].accountId =
                  ExpectedAudioActor(calls[p][1], loc[p].stream[1])]_vars

\* Both calls of the reverse path have been issued, for a self-voicemail
\* stream and for a stream with other participants.
C6_Witness ==
  /\ pc[Webhook] = "returned"
  /\ Len(calls[Webhook]) = 2
  /\ calls[Webhook][1].fields.reason = "voicemail"
  /\ calls[Webhook][2].accountId = 22
  /\ calls[Webhook][2].streamId = 7

\* A step of flush cycle f in which deliverPendingVoicemail ends.
Settles(f) == pc[f] = "returned" /\ pc'[f] = "next"

\* A step of flush cycle f.
FlushStep(f) ==
  \/ pc'[f] # pc[f] \/ iter'[f] # iter[f]
  \/ calls'[f] # calls[f] \/ err'[f] # err[f]

\* The store with the record under key k marked delivered, nothing else
\* changed.
Marked(s, k) ==
  [i \in DOMAIN s |->
     IF i = k THEN [From |-> s[i].From, To |-> s[i].To,
                    AudioURL |-> s[i].AudioURL, Delivered |-> TRUE]
     ELSE s[i]]

\* C7 as stated: in a flush, a record whose retry returned Delivered is
\* updated to delivered = true, one whose retry returned Failed is left as it
\* was; no step of a flush inserts a record or changes another record.
C7_FlushMarksDelivered ==
  [][\A f \in Flushers :
       /\ Settles(f) =>
            store' = IF Outcome(err[f]) = "Delivered"
                       THEN Marked(store, cur[f][1].key) ELSE store
       /\ (FlushStep(f) /\ ~Settles(f)) => store' = store]_vars

\* C7 amended: the record is updated when the retry returned Delivered and
\* the store accepts the update; when the store rejects it the record is left
\* as it was, as after Failed.
C7_FlushMarksDeliveredWhenPutAccepted ==
  [][\A f \in Flushers :
       /\ Settles(f) =>
            store' = IF Outcome(err[f]) = "Delivered" /\ err'[f] # ErrPut
                       THEN Marked(store, cur[f][1].key) ELSE store
       /\ (FlushStep(f) /\ ~Settles(f)) => store' = store]_vars

\* C7 witness: of two records, a flush cycle has delivered and marked one and
\* has failed on the other, which is as it was.
C7_Witness ==
  \E f \in Flushers :
    /\ pc[f] = "next"
    /\ cur[f] # Nil
    /\ err[f] # ErrNil
    /\ Len(store) = 2
    /\ ~store[cur[f][1].key].Delivered
    /\ \E k \in DOMAIN store : store[k].Delivered /\ k \notin deliveredAtRun[f]

\* C8 as stated: once t.Next has reported an error the flush has stopped the
\* scan; it is not back at the iterator, which would report the error again.
C8_StopsOnIteratorError ==
  \A f \in Flushers : iter[f].failed => pc[f] # "next"

\* C9: the scan hands out only records that were undelivered when the query
\* ran: no key delivered before the cycle started, no snapshot with
\* delivered = true.
C9_ScanYieldsUndeliveredOnly ==
  \A f \in Flushers :
    /\ \A e \in iter[f].results :
         ~e.vm.Delivered /\ e.key \notin deliveredAtRun[f]
    /\ cur[f] # Nil =>
         /\ ~cur[f][1].vm.Delivered
         /\ cur[f][1].key \notin deliveredAtRun[f]
         /\ pc[f] \in {"deliver", "audio", "returned"} =>
              /\ args[f].retrying
              /\ args[f].to = cur[f][1].vm.To

\* C9 witness: a cycle that started with a delivered record in the store is
\* delivering another one.
C9_Witness ==
  \E f \in Flushers :
    /\ pc[f] = "deliver"
    /\ deliveredAtRun[f] # {}
    /\ cur[f] # Nil
    /\ ~store[cur[f][1].key].Delivered

\* C10: marking a record that is already marked changes nothing; marking
\* sets delivered and leaves from, to, audioURL and every other record alone,
\* and adds no record.
C10_MarkDeliveredIdempotent ==
  [][\A f \in Flushers :
       (Settles(f) /\ err[f] = ErrNil /\ err'[f] = ErrNil)
       => /\ store' = Marked(store, cur[f][1].key)
          /\ store[cur[f][1].key].Delivered => store' = store
          /\ Len(store') = Len(store)]_vars

\* C10 witness: two flush cycles have each marked the same record.
C10_Witness ==
  /\ pc["f1"] = "next" /\ pc["f2"] = "next"
  /\ cur["f1"] # Nil /\ cur["f1"] = cur["f2"]
  /\ err["f1"] = ErrNil /\ err["f2"] = ErrNil
  /\ store[cur["f1"][1].key].Delivered

\* The parts of a URL: its path runs to the first "?", the query from there.
HasQuery(u) == \E i \in 1..Len(u) : u[i] = "?"

QueryStart(u) ==
  IF HasQuery(u)
    THEN CHOOSE i \in 1..Len(u) : u[i] = "?" /\ \A j \in 1..(i - 1) : u[j] # "?"
    ELSE Len(u) + 1

UrlPath(u) == SubSeq(u, 1, QueryStart(u) - 1)

UrlQuery(u) == SubSeq(u, QueryStart(u), Len(u))

Max(S) == CHOOSE m \in S : \A x \in S : x <= m

\* The extension of the final element of a path: from its last "." on.
Extension(p) ==
  LET first == 1 + Max({0} \cup {i \in 1..Len(p) : p[i] = "/"})
      dots == {i \in first..Len(p) : p[i] = "."}
  IN IF dots = {} THEN << >> ELSE SubSeq(p, Max(dots), Len(p))

\* The URL the claim has delivery use for input URL u.
ExpectedUrl(u) ==
  LET p == UrlPath(u) IN
  IF Extension(p) \in {<< >>, DotWav}
    THEN SubSeq(p, 1, Len(p) - Len(Extension(p))) \o DotMp3 \o UrlQuery(u)
    ELSE u

\* A step in which the webhook hands a request to deliverVoicemail.
Accepts == pc[Webhook] # "deliver" /\ pc'[Webhook] = "deliver"

\* The URL a record is stored with, is re-driven with and is posted with is
\* the URL deliverVoicemail was called with, and normalizing it again would
\* not change it.
UrlCarriedThrough ==
  /\ \A p \in Procs :
       Len(calls'[p]) > Len(calls[p]) =>
         LET c == calls'[p][Len(calls'[p])] IN
         "audio_url" \in DOMAIN c.fields => c.fields.audio_url = args[p].audioURL
  /\ Len(store') > Len(store) =>
       store'[Len(store')].AudioURL = args[Webhook].audioURL
  /\ \A f \in Flushers :
       (pc[f] # "deliver" /\ pc'[f] = "deliver") =>
         /\ args'[f].audioURL = store[cur'[f][1].key].AudioURL
         /\ NormalizeAudioURL(args'[f].audioURL) = args'[f].audioURL

\* C11 as stated: an input URL whose final path element has no extension or
\* the extension .wav is delivered as the same base path with .mp3, any other
\* input URL unchanged; the URL stored, re-driven by the flusher and posted is
\* that same URL.
C11_AudioUrlNormalized ==
  [][/\ Accepts => args'[Webhook].audioURL = ExpectedUrl(form')
     /\ UrlCarriedThrough]_vars

\* C11 for input URLs without a query string: the statement holds.
C11_AudioUrlNormalizedWithoutQuery ==
  [][/\ (Accepts /\ ~HasQuery(form')) => args'[Webhook].audioURL = ExpectedUrl(form')
     /\ UrlCarriedThrough]_vars

\* A recording URL with the extension .wav below a dotted directory has been
\* queued as .mp3, re-driven by a flush cycle and posted.
C11_Reached ==
  /\ pc["f1"] = "returned"
  /\ Len(calls["f1"]) = 2
  /\ calls["f1"][2].ok
  /\ calls["f1"][2].fields.audio_url = <<".", "/">> \o DotMp3
  /\ store[1].AudioURL = <<".", "/">> \o DotMp3

\* A step in which p issues a postStream call; the call it issued.
Posts(p) == Len(calls'[p]) > Len(calls[p])

LastCall(p) == calls'[p][Len(calls'[p])]

\* C12: a post call that fails ends the attempt: deliverVoicemail returns
\* Failed with that error, having written nothing to the store; no post
\* follows a failed one (no audio post after a failed reverse-creation), and
\* after a failed audio follow-up the creation call stands as it was issued;
\* what follows the return writes nothing either.
C12_FailedPostIsTerminal ==
  [][\A p \in Procs :
       /\ (Posts(p) /\ ~LastCall(p).ok)
          => /\ pc'[p] = "returned"
             /\ err'[p] = ErrPost
             /\ Outcome(err'[p]) = "Failed"
             /\ store' = store
             /\ ops'[p].puts = 0
             /\ SubSeq(calls'[p], 1, Len(calls[p])) = calls[p]
       /\ Posts(p) => \A i \in 1..Len(calls[p]) : calls[p][i].ok
       /\ (pc[p] = "returned" /\ err[p] = ErrPost)
          => /\ store' = store
             /\ ~Posts(p)]_vars

\* C12 witness: the reverse-creation call succeeded, the audio follow-up
\* failed, and the retry of a flush cycle has returned that failure.
C12_Witness ==
  /\ pc["f1"] = "returned"
  /\ args["f1"].retrying
  /\ Len(calls["f1"]) = 2
  /\ calls["f1"][1].ok
  /\ ~calls["f1"][2].ok
  /\ err["f1"] = ErrPost

\* Whether a postStream call asks the platform for a new conversation (POST
\* streams) or adds to an existing one (POST streams/<id>/chunks).
Creates(c) == c.path = <<"streams">>

AppendsTo(c, id) == Len(c.path) = 3 /\ c.path[1] = "streams" /\ c.path[3] = "chunks"
                    /\ c.path[2] = (IF id = 7 THEN "7" ELSE IF id = -1 THEN "-1" ELSE "0")

\* C13 as stated: a post creates a conversation exactly when its conversation
\* id is 0 and adds to conversation id for every other id; the audio
\* follow-up of the reverse path never creates a second conversation.
C13_CreatesIffZero ==
  \A p \in Procs :
    /\ \A i \in 1..Len(calls[p]) :
         LET c == calls[p][i] IN
         /\ Creates(c) <=> c.streamId = 0
         /\ c.streamId # 0 => AppendsTo(c, c.streamId)
    /\ Len(calls[p]) = 2 => ~Creates(calls[p][2])

\* C13 with the test the code makes: a post creates a conversation exactly
\* when its conversation id is not positive, and the audio follow-up adds to
\* the returned stream when its id is positive: this holds.
C13_CreatesIffNotPositive ==
  \A p \in Procs :
    /\ \A i \in 1..Len(calls[p]) :
         LET c == calls[p][i] IN
         /\ Creates(c) <=> c.streamId <= 0
         /\ c.streamId > 0 => AppendsTo(c, c.streamId)
    /\ (Len(calls[p]) = 2 /\ calls[p][2].streamId > 0) => ~Creates(calls[p][2])

\* An audio follow-up has been posted to a stream the platform returned with
\* a negative id.
C13_Reached ==
  /\ pc[Webhook] = "returned"
  /\ Len(calls[Webhook]) = 2
  /\ calls[Webhook][2].streamId = -1

\* C14: a first attempt that reaches the enqueue step issues one store.Put;
\* when the store rejects it (nothing is written) the attempt ends Failed
\* with the storage error, not QueuedPending and not Delivered, no record
\* exists for the voicemail, and neither the call nor its caller writes again.
C14_EnqueueFailurePropagated ==
  [][\A p \in Procs :
       /\ (Starts(p) /\ ~args[p].retrying /\ args[p].to # ""
             /\ Unusable(ToSeen(p)))
          => /\ ops'[p].puts = 1
             /\ calls'[p] = << >>
             /\ pc'[p] = "returned"
             /\ store' = store
                  => /\ err'[p] = ErrStoreFailed
                     /\ Outcome(err'[p]) = "Failed"
             /\ store' # store => err'[p] # ErrStoreFailed
       /\ (pc[p] = "returned" /\ err[p] = ErrStoreFailed)
          => /\ store' = store
             /\ ops'[p].puts <= ops[p].puts]_vars

\* C14 witness: the store rejected the write of the first voicemail; the
\* attempt has returned the storage error and there is no record.
C14_Witness ==
  /\ pc[Webhook] = "returned"
  /\ ~args[Webhook].retrying
  /\ err[Webhook] = ErrStoreFailed
  /\ ops[Webhook].puts = 1
  /\ store = << >>

\* A step in which p runs deliverVoicemail and the Datastore fails one of the
\* two store.Get of getIdentityPair.
LookupErrs(p) == Starts(p) /\ (loc'[p].getFailed[1] \/ loc'[p].getFailed[2])

\* C15 as stated: an attempt whose identity lookup failed ends Failed with
\* that cause, not with the error of an unregistered recipient; it writes no
\* PendingVoicemail and posts nothing.
C15_LookupErrorFails ==
  [][\A p \in Procs :
       LookupErrs(p)
       => /\ pc'[p] = "returned"
          /\ Outcome(err'[p]) = "Failed"
          /\ err'[p] # ErrStillNoAccount
          /\ store' = store
          /\ ops'[p].puts = 0
          /\ calls'[p] = << >>]_vars

\* The lookup of a linked recipient failed and the first attempt queued the
\* voicemail as if the recipient had no account.
C15_Reached ==
  /\ pc[Webhook] = "returned"
  /\ loc[Webhook].getFailed[2]
  /\ identities["b"] = Linked("b")
  /\ err[Webhook] = ErrStoredPending
  /\ Len(store) = 1

\* C16: under any interleaving of webhook deliveries and flush cycles no
\* record is deleted, a record's from, to and audioURL never change, and its
\* delivered flag never goes back from true to false.
C16_RecordsNeverRegress ==
  [][/\ Len(store') >= Len(store)
     /\ \A k \in DOMAIN store :
          /\ k \in DOMAIN store'
          /\ store'[k].From = store[k].From
          /\ store'[k].To = store[k].To
          /\ store'[k].AudioURL = store[k].AudioURL
          /\ store[k].Delivered => store'[k].Delivered]_vars

\* C16 witness: a request has just stored a second record while a flush cycle
\* is about to mark the first, which another cycle has marked since the scan
\* read it.
C16_Witness ==
  \E f \in Flushers :
    /\ pc[Webhook] = "returned"
    /\ err[Webhook] = ErrStoredPending
    /\ Len(store) = 2
    /\ pc[f] = "returned"
    /\ err[f] = ErrNil
    /\ ~cur[f][1].vm.Delivered
    /\ store[cur[f][1].key].Delivered

\* The keys a flush cycle has taken into its scan and not yet worked off.
ScanKeys(f) ==
  {e.key : e \in iter'[f].results}
    \cup (IF cur'[f] = Nil THEN {} ELSE {cur'[f][1].key})

\* Every flush cycle that starts scans every record that is undelivered then,
\* however often its retry has failed before.
EveryCycleRetries ==
  \A f \in Flushers :
    (pc[f] \in {"idle", "panicked"} /\ FlushStep(f))
    => ScanKeys(f) = {k \in DOMAIN store : ~store[k].Delivered}

\* C17 as stated: every flush cycle attempts every undelivered record again,
\* and once the recipient's identity is present with available = false and
\* stays so, store and platform calls succeeding and flush cycles being run,
\* every record addressed to the recipient is eventually delivered = true.
C17_PendingEventuallyDelivered ==
  /\ [][EveryCycleRetries]_vars
  /\ \A k \in 1..MaxPending :
       (k \in DOMAIN store /\ Usable(identities["b"]))
         ~> (k \in DOMAIN store /\ store[k].Delivered)

\* C17 where the recipient's identity carries an Account key: this holds.
C17_PendingEventuallyDeliveredAccountSet ==
  /\ [][EveryCycleRetries]_vars
  /\ \A k \in 1..MaxPending :
       (k \in DOMAIN store /\ identities["b"] = Linked("b"))
         ~> (k \in DOMAIN store /\ store[k].Delivered)

\* A flush cycle has panicked on the record of a recipient whose identity has
\* available = false and no account.
C17_Reached ==
  /\ pc["f1"] = "panicked"
  /\ Usable(identities["b"])
  /\ identities["b"][1].Account = Nil
  /\ Len(store) > 0
  /\ ~store[1].Delivered

\* What requests and flush cycles run one after the other do to the store in
\* one step: nothing, a new undelivered record for a request, or the
\* delivered mark on one undelivered record.
SerialStoreStep(s, t) ==
  \/ t = s
  \/ \E from \in Froms, to \in Tos \ {""}, u \in RecordingUrls :
       t = Append(s, [From |-> IF from = "" THEN "unknownuser" ELSE from,
                      To |-> to, AudioURL |-> NormalizeAudioURL(u),
                      Delivered |-> FALSE])
  \/ \E k \in DOMAIN s : ~s[k].Delivered /\ t = Marked(s, k)

\* C18: with flush cycles and requests overlapping, every step changes the
\* store as a step of a serial run does, so the store is one a serial run
\* reaches: no record lost, corrupted or reset; a cycle that delivers a
\* record another cycle has delivered and marked leaves the store as it is,
\* the duplicate delivery being the only effect of the race.
C18_OverlapStoreIsSerial ==
  [][/\ SerialStoreStep(store, store')
     /\ \A f \in Flushers :
          (Settles(f) /\ Outcome(err[f]) = "Delivered"
             /\ store[cur[f][1].key].Delivered)
          => store' = store]_vars

\* C18 witness: two overlapping flush cycles have both delivered the same
\* record and neither has marked it yet.
C18_Witness ==
  /\ pc["f1"] = "returned" /\ pc["f2"] = "returned"
  /\ err["f1"] = ErrNil /\ err["f2"] = ErrNil
  /\ cur["f1"] = cur["f2"]
  /\ ~store[cur["f1"][1].key].Delivered
  /\ Len(store) = 2

\* The calls of an attempt end with a successful post carrying the audio URL,
\* every call before it having succeeded too.
AudioPosted(cs, audioURL) ==
  /\ cs # << >>
  /\ \A i \in 1..Len(cs) : cs[i].ok
  /\ "audio_url" \in DOMAIN cs[Len(cs)].fields
  /\ cs[Len(cs)].fields.audio_url = audioURL

\* C19: an attempt returns Delivered only when its audio post succeeded; an
\* attempt posts only for a recipient whose identity it found with available
\* = false; and a record becomes delivered = true only in the step of a flush
\* cycle whose retry of that record returned Delivered, the audio post
\* carrying the record's audioURL.
C19_DeliveredOnlyAfterAudioPost ==
  [][/\ \A p \in Procs :
          /\ (pc'[p] = "returned" /\ pc[p] # "returned" /\ err'[p] = ErrNil)
             => AudioPosted(calls'[p], args[p].audioURL)
          /\ (Starts(p) /\ Posts(p)) => Usable(ToSeen(p))
     /\ \A k \in DOMAIN store :
          (~store[k].Delivered /\ store'[k].Delivered)
          => \E f \in Flushers :
               /\ Settles(f)
               /\ cur[f][1].key = k
               /\ Outcome(err[f]) = "Delivered"
               /\ args[f].retrying
               /\ AudioPosted(calls[f], store[k].AudioURL)]_vars

\* C19 witness: a flush cycle has marked one record and has just delivered
\* another one by a direct post that carried its audioURL.
C19_Witness ==
  /\ pc["f1"] = "returned"
  /\ err["f1"] = ErrNil
  /\ Len(calls["f1"]) = 1
  /\ calls["f1"][1].fields.audio_url = store[cur["f1"][1].key].AudioURL
  /\ ~store[cur["f1"][1].key].Delivered
  /\ \E k \in DOMAIN store : store[k].Delivered /\ k \notin deliveredAtRun["f1"]

\* The retry of the record under key k has returned Delivered: its audio post
\* has succeeded and the flush cycle has not yet gone on.
RetryDelivered(k) ==
  \E f \in Flushers :
    /\ pc[f] = "returned"
    /\ args[f].retrying
    /\ Outcome(err[f]) = "Delivered"
    /\ cur[f] # Nil
    /\ cur[f][1].key = k

\* C20 as stated: with flush cycles one after the other, once the retry of a
\* record has returned Delivered and the cycle has gone on, no retry of that
\* record returns Delivered again, store operations failing or not.
C20_DeliveredAtMostOnce ==
  \A k \in 1..MaxPending :
    [](RetryDelivered(k) => [](~RetryDelivered(k) => []~RetryDelivered(k)))

\* A flush cycle whose Put of a delivered voicemail was rejected has ended,
\* and the next cycle has delivered the same record again.
C20_Reached ==
  /\ pc["f1"] = "returned"
  /\ RetryDelivered(1)
  /\ ~store[1].Delivered
  /\ deliveredAtRun["f1"] = {}
  /\ Len(store) = 2
  /\ store[2].Delivered

=============================================================================
